---- MODULE Spec2Model ----
(***************************************************************************)
(* Model of the Xpire server (src/server/index.js): the item normaliser,   *)
(* the JSON-file store, the fixed-window rate limiter and the Express      *)
(* request pipeline.                                                       *)
(*                                                                         *)
(* JavaScript values are records [t, s, n, d]: t is the type tag, s the    *)
(* UTF-16 code units of a string (one token per code unit), n/d a number   *)
(* as a fraction (d = 1 for integers).  An ISO-8601 date string is the tag *)
(* "datestring" with n the instant, in ms, that the string denotes.        *)
(***************************************************************************)
EXTENDS Integers, Sequences, FiniteSets

VARIABLES
    items,      \* createJsonStore: `let items` (the in-memory collection)
    disk,       \* the runtime data file (filePath)
    seed,       \* the seed file (options.seedFile)
    clock,      \* wall clock in ms (Date.now(), new Date())
    uuids,      \* number of crypto.randomUUID() results handed out so far
    buckets,    \* createRateLimiter: `const buckets = new Map()`
    inflight,   \* the calls suspended in persist(), at an await
    serial,     \* history: the collection the calls made so far give when
                \* run one at a time in the order they were made
    calls,      \* history: the store calls made since the last start, counted
                \* up to MaxCalls
    hits,       \* history: the limiter's decisions in order
    up,         \* startServer: init() has succeeded and the store is in use
    last        \* history: the last operation, its inputs and its outcome

vars == <<items, disk, seed, clock, uuids, buckets, inflight, serial, calls, hits, up, last>>

----------------------------------------------------------------------------
(* Bounds of the model. *)

MaxItems == 2
MaxUuids == 2
MaxClock == 1
MaxLog == 4

\* createApp({ rateLimitWindowMs, rateLimitMax }) as configured in the model
WindowMs == 2
MaxRequests == 2
MaxCalls == 3
\* calls suspended in persist() at the same time
MaxInflight == 2

(* Program constants. *)

NameMaxLength == 80
CategoryMaxLength == 40
NotesMaxLength == 240
QuantityMin == 1
QuantityMax == 999

HourMs == 60 * 60 * 1000
DayMs == 24 * 60 * 60 * 1000

(* The host's local time zone (UTC+7 here): Date.prototype.setHours works *)
(* in local time.                                                          *)
LocalOffsetMs == 7 * HourMs

----------------------------------------------------------------------------
(* JavaScript values. *)

Undef == [t |-> "undefined", s |-> <<>>, n |-> 0, d |-> 1]
Null == [t |-> "null", s |-> <<>>, n |-> 0, d |-> 1]
Str(s) == [t |-> "string", s |-> s, n |-> 0, d |-> 1]
Num(n) == [t |-> "number", s |-> <<>>, n |-> n, d |-> 1]
Frac(n, d) == [t |-> "number", s |-> <<>>, n |-> n, d |-> d]
DateStr(ms) == [t |-> "datestring", s |-> <<>>, n |-> ms, d |-> 1]
\* the number Infinity, as JSON.parse gives it for 1e999
Infinity == [t |-> "infinity", s |-> <<>>, n |-> 1, d |-> 0]

Repeat(c, n) == [i \in 1..n |-> c]

\* a ?? b
Coalesce(a, b) == IF a.t \in {"undefined", "null"} THEN b ELSE a

Digits == <<"0", "1", "2", "3", "4", "5", "6", "7", "8", "9">>

RECURSIVE DigitsOf(_)
DigitsOf(n) ==
    IF n < 10 THEN <<Digits[n + 1]>>
    ELSE DigitsOf(n \div 10) \o <<Digits[(n % 10) + 1]>>

\* value.toString() for the values a payload field can hold
ToString(v) ==
    CASE v.t = "string" -> v.s
      [] v.t = "number" /\ v.d = 1 /\ v.n >= 0 -> DigitsOf(v.n)
      [] v.t = "number" /\ v.d = 1 /\ v.n < 0 -> <<"-">> \o DigitsOf(-v.n)

Whitespace == {" ", "\t"}

RECURSIVE TrimStart(_)
TrimStart(s) ==
    IF s # <<>> /\ Head(s) \in Whitespace THEN TrimStart(Tail(s)) ELSE s

RECURSIVE TrimEnd(_)
TrimEnd(s) ==
    IF s # <<>> /\ s[Len(s)] \in Whitespace
    THEN TrimEnd(SubSeq(s, 1, Len(s) - 1))
    ELSE s

\* String.prototype.trim
Trim(s) == TrimEnd(TrimStart(s))

\* String.prototype.slice(0, maxLength)
Slice(s, maxLength) == SubSeq(s, 1, IF Len(s) < maxLength THEN Len(s) ELSE maxLength)

\* The lower-case mapping of one code unit.  U+0130 (capital I with dot
\* above) lower-cases to two code units, "i" followed by U+0307.
LowerOf(c) ==
    CASE c = "A" -> <<"a">>
      [] c = "D" -> <<"d">>
      [] c = "E" -> <<"e">>
      [] c = "F" -> <<"f">>
      [] c = "H" -> <<"h">>
      [] c = "M" -> <<"m">>
      [] c = "R" -> <<"r">>
      [] c = "S" -> <<"s">>
      [] c = "U+0130" -> <<"i", "U+0307">>
      [] OTHER -> <<c>>

\* String.prototype.toLowerCase
RECURSIVE ToLowerCase(_)
ToLowerCase(s) ==
    IF s = <<>> THEN <<>> ELSE LowerOf(Head(s)) \o ToLowerCase(Tail(s))

normalizeString(input, fallback, maxLength, lowercase) ==
    LET value == Trim(ToString(Coalesce(input, Str(fallback))))
        limited == Slice(value, maxLength)
    IN  IF lowercase THEN ToLowerCase(limited) ELSE limited

----------------------------------------------------------------------------
(* Dates. *)

NaN == [valid |-> FALSE, ms |-> 0]
Instant(ms) == [valid |-> TRUE, ms |-> ms]

\* new Date(value): a date string or a number of ms gives that instant,
\* null gives the epoch, anything else modelled here is an Invalid Date.
NewDate(v) ==
    CASE v.t = "datestring" -> Instant(v.n)
      [] v.t = "number" /\ v.d = 1 -> Instant(v.n)
      [] v.t = "null" -> Instant(0)
      [] OTHER -> NaN

\* startOfDay: setHours(0, 0, 0, 0) in local time, as ms since the epoch
startOfDay(ms) == ms - ((ms + LocalOffsetMs) % DayMs)

\* Date.prototype.toISOString
ToISOString(ms) == DateStr(ms)

----------------------------------------------------------------------------
(* Numbers. *)

NotFinite == [finite |-> FALSE, n |-> 0, d |-> 1]
Finite(n, d) == [finite |-> TRUE, n |-> n, d |-> d]

IsDigits(s) == s # <<>> /\ \A i \in 1..Len(s) : \E k \in 1..10 : Digits[k] = s[i]

DigitValue(c) == (CHOOSE k \in 1..10 : Digits[k] = c) - 1

RECURSIVE ParseDigits(_)
ParseDigits(s) ==
    IF s = <<>> THEN 0
    ELSE 10 * ParseDigits(SubSeq(s, 1, Len(s) - 1)) + DigitValue(s[Len(s)])

\* Number(value): undefined and non-numeric strings give NaN, null and the
\* blank string give 0.
ToNumber(v) ==
    CASE v.t = "number" -> Finite(v.n, v.d)
      [] v.t = "null" -> Finite(0, 1)
      [] v.t = "string" /\ Trim(v.s) = <<>> -> Finite(0, 1)
      [] v.t = "string" /\ IsDigits(Trim(v.s)) -> Finite(ParseDigits(Trim(v.s)), 1)
      [] OTHER -> NotFinite

\* Math.round: the nearest integer, halves towards +Infinity
MathRound(x) == (2 * x.n + x.d) \div (2 * x.d)

\* Math.min written where Math.max belongs
Max2_Smaller(a, b) == IF a <= b THEN a ELSE b

Max2(a, b) == IF a >= b THEN a ELSE b
Min2(a, b) == IF a <= b THEN a ELSE b

----------------------------------------------------------------------------
(* Payloads and items. *)

Fields == {"id", "name", "category", "quantity", "expiresOn", "notes",
           "createdAt", "updatedAt"}

\* A request body or store argument: its JSON shape and, for an object, its
\* properties (a property the object does not have reads as undefined).
Obj(f) == [shape |-> "object", f |-> f]
NoFields == [k \in Fields |-> Undef]
NotAnObject(shape) == [shape |-> shape, f |-> NoFields]

Thrown(message) == [ok |-> FALSE, error |-> message, item |-> NoFields]
Returned(item) == [ok |-> TRUE, error |-> "", item |-> item]

\* normalizeItem without the `if (!name)` check
normalizeItem_NoNameCheck(input, now, uuid) ==
    IF input.shape # "object"
    THEN Thrown("item payload must be a JSON object")
    ELSE
    LET expiresOn == NewDate(input.f.expiresOn)
    IN  IF ~expiresOn.valid
        THEN Thrown("expiresOn must be a valid ISO date value")
        ELSE Returned(
            [id |-> Coalesce(input.f.id, uuid),
             name |-> Str(normalizeString(input.f.name, <<>>, NameMaxLength, FALSE)),
             category |-> Str(normalizeString(input.f.category,
                                 <<"g", "e", "n", "e", "r", "a", "l">>,
                                 CategoryMaxLength, TRUE)),
             quantity |-> Num(1),
             expiresOn |-> ToISOString(startOfDay(expiresOn.ms)),
             notes |-> Str(normalizeString(input.f.notes, <<>>, NotesMaxLength, FALSE)),
             createdAt |-> Coalesce(input.f.createdAt, ToISOString(now)),
             updatedAt |-> ToISOString(now)])

normalizeItem(input, now, uuid) ==
    IF input.shape # "object"
    THEN Thrown("item payload must be a JSON object")
    ELSE
    LET expiresOn == NewDate(input.f.expiresOn)
        name == normalizeString(input.f.name, <<>>, NameMaxLength, FALSE)
        quantityInput == ToNumber(input.f.quantity)
        quantity == IF quantityInput.finite
                    THEN Max2(QuantityMin, Min2(QuantityMax, MathRound(quantityInput)))
                    ELSE 1
    IN  IF ~expiresOn.valid
        THEN Thrown("expiresOn must be a valid ISO date value")
        ELSE IF name = <<>>
        THEN Thrown("name is required")
        ELSE Returned(
            [id |-> Coalesce(input.f.id, uuid),
             name |-> Str(name),
             category |-> Str(normalizeString(input.f.category,
                                 <<"g", "e", "n", "e", "r", "a", "l">>,
                                 CategoryMaxLength, TRUE)),
             quantity |-> Num(quantity),
             expiresOn |-> ToISOString(startOfDay(expiresOn.ms)),
             notes |-> Str(normalizeString(input.f.notes, <<>>, NotesMaxLength, FALSE)),
             createdAt |-> Coalesce(input.f.createdAt, ToISOString(now)),
             updatedAt |-> ToISOString(now)])

\* crypto.randomUUID(): the k-th identifier drawn
Uuid(k) == Str(<<"u", "-">> \o DigitsOf(k))

\* whether normalizeItem evaluates crypto.randomUUID() for this input
DrawsUuid(input) ==
    /\ normalizeItem(input, 0, Null).ok
    /\ input.f.id.t \in {"undefined", "null"}

----------------------------------------------------------------------------
(* The status engine: daysUntil, itemStatus, toApiItem.                    *)

StatusAll == <<"a", "l", "l">>
StatusFresh == <<"f", "r", "e", "s", "h">>
StatusExpiring == <<"e", "x", "p", "i", "r", "i", "n", "g">>
StatusExpired == <<"e", "x", "p", "i", "r", "e", "d">>

\* daysUntil(expiryDate, now): NaN when expiryDate is no date
daysUntil(expiryDate, now) ==
    LET expiry == NewDate(expiryDate)
    IN  IF ~expiry.valid THEN NotFinite
        ELSE Finite(MathRound(Finite(startOfDay(expiry.ms) - startOfDay(now), DayMs)), 1)

\* itemStatus that counts the seventh day as fresh
itemStatus_SevenIsFresh(expiryDate, now) ==
    LET daysLeft == daysUntil(expiryDate, now)
    IN  IF daysLeft.finite /\ daysLeft.n < 0 THEN StatusExpired
        ELSE IF daysLeft.finite /\ daysLeft.n < 7 THEN StatusExpiring
        ELSE StatusFresh

\* itemStatus(expiryDate, now): every comparison with NaN is false
itemStatus(expiryDate, now) ==
    LET daysLeft == daysUntil(expiryDate, now)
    IN  IF daysLeft.finite /\ daysLeft.n < 0 THEN StatusExpired
        ELSE IF daysLeft.finite /\ daysLeft.n <= 7 THEN StatusExpiring
        ELSE StatusFresh

\* toApiItem(item, now): the record with daysLeft and status added
toApiItem(item, now) ==
    [item |-> item, daysLeft |-> daysUntil(item.expiresOn, now),
     status |-> itemStatus(item.expiresOn, now)]

----------------------------------------------------------------------------
(* The data file.  JSON.stringify writes each record as its properties in  *)
(* insertion order; JSON.parse rebuilds the record from them.             *)

PropertyOrder == <<"id", "name", "category", "quantity", "expiresOn", "notes",
                   "createdAt", "updatedAt">>

\* JSON.stringify of one value: undefined is not representable
JsonValue(v) == IF v.t = "undefined" THEN <<>> ELSE <<v>>

RECURSIVE StringifyProps(_, _)
StringifyProps(item, keys) ==
    IF keys = <<>> THEN <<>>
    ELSE (IF JsonValue(item[Head(keys)]) = <<>> THEN <<>>
          ELSE << <<Head(keys), JsonValue(item[Head(keys)])[1]>> >>)
         \o StringifyProps(item, Tail(keys))

\* JSON.stringify(items, null, 2)
JsonStringify(its) == [i \in 1..Len(its) |-> StringifyProps(its[i], PropertyOrder)]

ParseObject(props) ==
    [k \in Fields |->
        IF \E i \in 1..Len(props) : props[i][1] = k
        THEN props[CHOOSE i \in 1..Len(props) :
                     /\ props[i][1] = k
                     /\ \A j \in (i + 1)..Len(props) : props[j][1] # k][2]
        ELSE Undef]

\* JSON.parse(content)
JsonParse(text) == [i \in 1..Len(text) |-> ParseObject(text[i])]

Absent == [state |-> "absent", text |-> <<>>]
File(text) == [state |-> "file", text |-> text]
Torn == [state |-> "torn", text |-> <<>>]

----------------------------------------------------------------------------
(* The store: the synchronous part of each method, up to its first await. *)

RetNone == [kind |-> "none", item |-> NoFields]
RetNull == [kind |-> "null", item |-> NoFields]
RetBool(b) == [kind |-> IF b THEN "true" ELSE "false", item |-> NoFields]
RetItem(item) == [kind |-> "item", item |-> item]

\* Array.prototype.findIndex((item) => item.id === id): 0 stands for -1
findIndex(its, id) ==
    IF \E i \in 1..Len(its) : its[i].id = id
    THEN CHOOSE i \in 1..Len(its) :
            /\ its[i].id = id
            /\ \A j \in 1..(i - 1) : its[j].id # id
    ELSE 0

\* Array.prototype.splice(index, 1)
Splice(its, index) == SubSeq(its, 1, index - 1) \o SubSeq(its, index + 1, Len(its))

\* the merge with the patch spread last: { ...items[index], id, createdAt, ...patch }
MergedInput_PatchLast(item, patch, id) ==
    Obj([k \in Fields |->
            IF patch.shape = "object" /\ patch.f[k].t # "undefined" THEN patch.f[k]
            ELSE IF k = "id" THEN id
            ELSE item[k]])

\* { ...items[index], ...patch, id, createdAt: items[index].createdAt }
MergedInput(item, patch, id) ==
    Obj([k \in Fields |->
            IF k = "id" THEN id
            ELSE IF k = "createdAt" THEN item.createdAt
            ELSE IF patch.shape = "object" /\ patch.f[k].t # "undefined"
                 THEN patch.f[k]
                 ELSE item[k]])

\* What a method has done when it reaches `await persist()` or returns or
\* throws before it: the collection, the value it will return, whether it
\* goes on to persist.
SyncThrew(its, message) ==
    [threw |-> TRUE, error |-> message, items |-> its, ret |-> RetNone, persist |-> FALSE]
SyncDone(its, ret, persist) ==
    [threw |-> FALSE, error |-> "", items |-> its, ret |-> ret, persist |-> persist]

createSync(its, rawItem, now, uuid) ==
    LET item == normalizeItem(rawItem, now, uuid)
    IN  IF ~item.ok THEN SyncThrew(its, item.error)
        ELSE SyncDone(Append(its, item.item), RetItem(item.item), TRUE)

\* update that normalises the patch before it looks the id up
updateSync_NormalizesFirst(its, id, patch, now, uuid) ==
    LET index == findIndex(its, id)
        probe == normalizeItem(MergedInput(NoFields, patch, id), now, uuid)
        merged == normalizeItem(MergedInput(its[index], patch, id), now, uuid)
    IN  IF index = 0 /\ ~probe.ok /\ patch # Obj(NoFields) THEN SyncThrew(its, probe.error)
        ELSE IF index = 0 THEN SyncDone(its, RetNull, FALSE)
        ELSE IF ~merged.ok THEN SyncThrew(its, merged.error)
        ELSE SyncDone([its EXCEPT ![index] = merged.item], RetItem(merged.item), TRUE)

updateSync(its, id, patch, now, uuid) ==
    LET index == findIndex(its, id)
        merged == normalizeItem(MergedInput(its[index], patch, id), now, uuid)
    IN  IF index = 0 THEN SyncDone(its, RetNull, FALSE)
        ELSE IF ~merged.ok THEN SyncThrew(its, merged.error)
        ELSE SyncDone([its EXCEPT ![index] = merged.item], RetItem(merged.item), TRUE)

removeSync(its, id) ==
    LET index == findIndex(its, id)
    IN  IF index = 0 THEN SyncDone(its, RetBool(FALSE), FALSE)
        ELSE SyncDone(Splice(its, index), RetBool(TRUE), TRUE)

----------------------------------------------------------------------------
(* persist(): mkdir, then writeFile of the whole collection.               *)

\* How fs.writeFile answers: "ok"; "EACCES", the open of the file is refused
\* and the file is untouched; "ENOSPC", the file was opened (truncated) and
\* the write failed part-way.
IoOutcomes == {"ok", "EACCES", "ENOSPC"}

\* How fs.mkdir answers: "ok", or "ENOTDIR" when a component of the path is
\* no directory.
MkdirOutcomes == {"ok", "ENOTDIR"}

IoMessage(io) ==
    CASE io = "EACCES" -> "EACCES: permission denied, open 'items.json'"
      [] io = "ENOSPC" -> "ENOSPC: no space left on device, write"
      [] io = "ENOTDIR" -> "ENOTDIR: not a directory, mkdir 'data'"
      [] OTHER -> ""

\* persist with appendFile in place of writeFile
persist_Appends(its, dsk, io) ==
    CASE io = "ok" -> File(dsk.text \o JsonStringify(its))
      [] io = "ENOSPC" -> Torn
      [] OTHER -> dsk

\* What persist() of the collection `its` leaves in the file when no other
\* write to the file runs together with it.
persist(its, dsk, io) ==
    CASE io = "ok" -> File(JsonStringify(its))
      [] io = "ENOSPC" -> Torn
      [] OTHER -> dsk

\* a method that catches the error of persist() and returns as if written
Settled_SwallowsError(w, io) ==
    [threw |-> FALSE, error |-> "", ret |-> w.ret]

\* How a method suspended in `await persist()` (the record w) settles when
\* persist() settles with outcome io: it returns the value it computed
\* before the await, or rejects with the error of persist().
Settled(w, io) ==
    [threw |-> io # "ok",
     error |-> IoMessage(io),
     ret |-> IF io # "ok" THEN RetNone ELSE w.ret]

\* a method that, once its write has resolved, assigns the collection it wrote
AfterPersist_AssignsWritten(its, w) == w.its

\* What a method does to the collection once its persist() has settled:
\* nothing.
AfterPersist(its, w) == its

\* What the file holds when fs.writeFile of w settles with outcome io: what
\* persist() leaves when the write ran alone. Writes to the same file that
\* ran together are not ordered by the order of their calls or of their
\* resolutions: the file then holds the text of any of them or a mixture of
\* their chunks, also when this write is the last of them to resolve and
\* also when this write failed (the file is then what the others made of
\* it, the complete text of one of them included).
Written(w, dsk, io) ==
    {persist(w.its, dsk, io)} \cup
        (IF w.met # {}
         THEN {Torn} \cup {persist(its, dsk, "ok") : its \in w.met}
         ELSE {})

\* What the file holds when the process goes down with the writes of ws in
\* progress: each may have not begun, have stopped part-way or be complete.
Abandoned(dsk, ws) ==
    {dsk} \cup UNION {{Torn, persist(w.its, dsk, "ok")} : w \in {v \in ws : v.phase = "write"}}

----------------------------------------------------------------------------
(* init(): ensureLoaded and loadSeedItems.                                 *)

\* parsed.map((item) => normalizeItem(item, new Date(item.createdAt ?? Date.now())))
RECURSIVE MapSeed(_, _, _)
MapSeed(recs, now, k) ==
    IF recs = <<>> THEN [ok |-> TRUE, items |-> <<>>, drawn |-> 0]
    ELSE LET input == Head(recs)
             at == NewDate(Coalesce(input.f.createdAt, Num(now)))
             item == normalizeItem(input, at.ms, Uuid(k + 1))
             used == IF DrawsUuid(input) THEN 1 ELSE 0
             rest == MapSeed(Tail(recs), now, k + used)
         IN  IF ~at.valid \/ ~item.ok \/ ~rest.ok
             THEN [ok |-> FALSE, items |-> <<>>, drawn |-> 0]
             ELSE [ok |-> TRUE, items |-> <<item.item>> \o rest.items,
                   drawn |-> used + rest.drawn]

loadSeedItems(sd, now, k) ==
    IF sd.state = "absent" THEN [ok |-> TRUE, items |-> <<>>, drawn |-> 0]
    ELSE MapSeed(sd.recs, now, k)

\* init() that also seeds when the runtime file holds an empty array
ensureLoaded_SeedsWhenEmpty(dsk, sd, now, k, io) ==
    LET seeded == loadSeedItems(sd, now, k)
    IN  CASE dsk.state = "file" /\ dsk.text # <<>> ->
               [threw |-> FALSE, items |-> JsonParse(dsk.text), disk |-> dsk,
                drawn |-> 0, persisted |-> FALSE]
          [] dsk.state = "torn" ->
               [threw |-> TRUE, items |-> <<>>, disk |-> dsk,
                drawn |-> 0, persisted |-> FALSE]
          [] ~seeded.ok ->
               [threw |-> TRUE, items |-> <<>>, disk |-> dsk,
                drawn |-> 0, persisted |-> FALSE]
          [] OTHER ->
               [threw |-> io # "ok", items |-> seeded.items,
                disk |-> persist(seeded.items, dsk, io),
                drawn |-> seeded.drawn, persisted |-> TRUE]

\* A fresh store (items = []) running init().
ensureLoaded(dsk, sd, now, k, io) ==
    LET seeded == loadSeedItems(sd, now, k)
    IN  CASE dsk.state = "file" ->
               [threw |-> FALSE, items |-> JsonParse(dsk.text), disk |-> dsk,
                drawn |-> 0, persisted |-> FALSE]
          [] dsk.state = "torn" ->
               [threw |-> TRUE, items |-> <<>>, disk |-> dsk,
                drawn |-> 0, persisted |-> FALSE]
          [] dsk.state = "absent" /\ ~seeded.ok ->
               [threw |-> TRUE, items |-> <<>>, disk |-> dsk,
                drawn |-> 0, persisted |-> FALSE]
          [] OTHER ->
               [threw |-> io # "ok", items |-> seeded.items,
                disk |-> persist(seeded.items, dsk, io),
                drawn |-> seeded.drawn, persisted |-> TRUE]

----------------------------------------------------------------------------
(* createRateLimiter: a fixed window per client address.                   *)

Ips == {"10.0.0.1", "10.0.0.2"}

NoBucket == [present |-> FALSE, windowStartMs |-> 0, count |-> 0]
Bucket(windowStartMs, count) ==
    [present |-> TRUE, windowStartMs |-> windowStartMs, count |-> count]
NoBuckets == [ip \in Ips |-> NoBucket]

\* a limiter whose window restarts at every denied request
limiter_DenialExtends(bkts, ip, nowMs, windowMs, maxRequests) ==
    LET current == bkts[ip]
    IN  IF ~current.present \/ nowMs - current.windowStartMs >= windowMs
        THEN [allowed |-> TRUE, remaining |-> maxRequests - 1,
              buckets |-> [bkts EXCEPT ![ip] = Bucket(nowMs, 1)]]
        ELSE IF current.count >= maxRequests
        THEN [allowed |-> FALSE, remaining |-> 0,
              buckets |-> [bkts EXCEPT ![ip] = Bucket(nowMs, current.count)]]
        ELSE [allowed |-> TRUE, remaining |-> maxRequests - (current.count + 1),
              buckets |-> [bkts EXCEPT ![ip] = Bucket(current.windowStartMs,
                                                       current.count + 1)]]

limiter(bkts, ip, nowMs, windowMs, maxRequests) ==
    LET current == bkts[ip]
    IN  IF ~current.present \/ nowMs - current.windowStartMs >= windowMs
        THEN [allowed |-> TRUE, remaining |-> maxRequests - 1,
              buckets |-> [bkts EXCEPT ![ip] = Bucket(nowMs, 1)]]
        ELSE IF current.count >= maxRequests
        THEN [allowed |-> FALSE, remaining |-> 0, buckets |-> bkts]
        ELSE [allowed |-> TRUE, remaining |-> maxRequests - (current.count + 1),
              buckets |-> [bkts EXCEPT ![ip] = Bucket(current.windowStartMs,
                                                       current.count + 1)]]

----------------------------------------------------------------------------
(* Inputs. *)

Milk == <<"M", "i", "l", "k">>
Dairy == <<"D", "a", "i", "r", "y">>

\* two expiry dates, the second with a time of day
ExpiryA == DateStr(10 * DayMs)
ExpiryB == DateStr(3 * DayMs + 5 * HourMs)

\* the payload of the CRUD test
MilkPayload ==
    Obj([NoFields EXCEPT !.name = Str(Milk), !.category = Str(Dairy),
                         !.quantity = Num(2), !.expiresOn = ExpiryA])

\* padded strings, defaults for category and quantity, its own createdAt
PaddedPayload ==
    Obj([NoFields EXCEPT !.name = Str(<<" ">> \o Milk \o <<"\t">>),
                         !.notes = Str(<<" ", "o", "k", " ">>),
                         !.expiresOn = ExpiryB,
                         !.createdAt = DateStr(5 * DayMs)])

\* a name whose 80th code unit is a blank, notes over the cap
LongPayload ==
    Obj([NoFields EXCEPT !.name = Str(Repeat("a", NameMaxLength - 1) \o <<" ", "b">>),
                         !.notes = Str(Repeat("n", NotesMaxLength + 1)),
                         !.quantity = Num(5000),
                         !.expiresOn = ExpiryA])

\* a category of 40 code units that each lower-case to two
DottedPayload ==
    Obj([NoFields EXCEPT !.name = Str(Milk),
                         !.category = Str(Repeat("U+0130", CategoryMaxLength)),
                         !.quantity = Num(0),
                         !.expiresOn = ExpiryB])

NotObjectPayloads == {NotAnObject("array"), NotAnObject("undefined")}

BadNamePayloads ==
    {Obj([MilkPayload.f EXCEPT !.name = Undef]),
     Obj([MilkPayload.f EXCEPT !.name = Str(<<" ", " ">>)])}

BadDatePayloads ==
    {Obj([MilkPayload.f EXCEPT !.expiresOn = Undef]),
     Obj([MilkPayload.f EXCEPT !.expiresOn = Str(<<"s", "o", "o", "n">>)])}

InvalidPayloads == NotObjectPayloads \cup BadNamePayloads \cup BadDatePayloads

\* ids a caller can put in a payload or ask for: one of its own choosing and
\* the ids it has seen
KnownIds(its) == {Str(<<"x">>)} \cup {its[i].id : i \in 1..Len(its)}

WithId(payload, id) == Obj([payload.f EXCEPT !.id = id])

EmptyPatch == Obj(NoFields)

\* a patch that tries to move the record to another id and creation time
IdentityPatch ==
    Obj([NoFields EXCEPT !.id = Str(<<"y">>), !.createdAt = DateStr(7 * DayMs),
                         !.updatedAt = DateStr(7 * DayMs), !.quantity = Num(3)])

\* the patch of the CRUD test
QuantityPatch == Obj([NoFields EXCEPT !.quantity = Num(3)])

ValidPatches == {EmptyPatch, IdentityPatch, QuantityPatch}

InvalidPatches ==
    {Obj([NoFields EXCEPT !.name = Str(<<" ">>)]),
     Obj([NoFields EXCEPT !.expiresOn = Str(<<"s", "o", "o", "n">>)])}

NoSeed == [state |-> "absent", recs |-> <<>>]
SeedFile(recs) == [state |-> "file", recs |-> recs]

----------------------------------------------------------------------------
(* Requests, and the record of the last event.                             *)

\* A request body as express.json() meets it: none, JSON text that parses to
\* `json`, text that is not JSON, or more than the 25kb limit.
NoBody == [kind |-> "none", json |-> Obj(NoFields)]
JsonBody(json) == [kind |-> "json", json |-> json]
MalformedBody == [kind |-> "malformed", json |-> Obj(NoFields)]
TooLargeBody == [kind |-> "toolarge", json |-> Obj(NoFields)]

Request(ip, method, path, id, origin, body) ==
    [ip |-> ip, method |-> method, path |-> path, id |-> id, origin |-> origin,
     body |-> body, query |-> Undef]

NoRequest == Request("", "", "", Undef, "", NoBody)


\* The last event: a call of a store method or a request, and how far it
\* has come. `settled` tells that the method's promise has settled (for a
\* request: that the handler has run to its end); until then ret, threw and
\* status are not known. `pending` counts the calls that were suspended in
\* persist() when this one was made; afterFailure tells that the event
\* before the call was a store call whose write had failed.
NoOp ==
    [op |-> "none", id |-> Undef, arg |-> Obj(NoFields), req |-> NoRequest, threw |-> FALSE,
     validation |-> FALSE, error |-> "", ret |-> RetNone, persisted |-> FALSE, io |-> "ok",
     status |-> 0, message |-> "", remaining |-> 0, list |-> <<>>, total |-> 0,
     afterFailure |-> FALSE, settled |-> TRUE, pending |-> 0]

\* a store call whose write failed
FailedWrite(event) ==
    /\ event.op \in {"create", "update", "remove"}
    /\ event.settled
    /\ event.persisted
    /\ event.io # "ok"

\* A store method was called and its synchronous part ended as `sync`: with
\* a throw or a return (the promise is settled), or at `await persist()`.
Called(op, id, arg, sync) ==
    [op |-> op, id |-> id, arg |-> arg, req |-> NoRequest, threw |-> sync.threw,
     validation |-> sync.threw, error |-> sync.error,
     ret |-> IF sync.persist THEN RetNone ELSE sync.ret,
     persisted |-> sync.persist, io |-> "ok",
     status |-> 0, message |-> "", remaining |-> 0, list |-> <<>>, total |-> 0,
     afterFailure |-> FailedWrite(last), settled |-> ~sync.persist,
     pending |-> Cardinality(inflight)]

\* the call suspended as w has settled as r, persist() having answered io
Done(w, r, io) ==
    [w.call EXCEPT !.threw = r.threw, !.error = r.error, !.ret = r.ret, !.io = io,
                   !.settled = TRUE]

\* the smallest slot no suspended call holds
FreeSlot == CHOOSE s \in 1..MaxInflight :
                /\ \A w \in inflight : w.slot # s
                /\ \A t \in 1..(s - 1) : \E w \in inflight : w.slot = t

\* A call suspended in persist(): at `await fs.mkdir` (phase "mkdir") or at
\* `await fs.writeFile` (phase "write"). `its` is the collection whose text
\* was handed to fs.writeFile, `met` the collections of the other writes this
\* write has run together with, `ret` the value the method will return,
\* `call` the event of the call, `express` the Express version serving it.
Persisting(event, ret, express) ==
    [slot |-> FreeSlot, phase |-> "mkdir", its |-> <<>>, met |-> {}, ret |-> ret,
     express |-> express, call |-> event]

----------------------------------------------------------------------------
(* createApp: the middleware chain and the routes.  A handler is two       *)
(* operators: the part that runs when the request arrives, up to its       *)
(* response or to `await store.<method>`, and the part that runs when the  *)
(* awaited promise has settled.                                            *)

AllowedOrigin == "http://localhost:3000"
BlockedOrigin == "http://evil.example"
DEFAULT_ALLOWED_ORIGINS == {"http://localhost:3000", "http://127.0.0.1:3000"}

\* The Express major version decides two things the source leaves to it:
\* req.body of a request without a body ({} in 4, undefined in 5) and what
\* becomes of a rejected async handler (nothing in 4, next(err) in 5).
ExpressVersions == {4, 5}

ReqBody(req, express) ==
    IF req.body.kind = "json" THEN req.body.json
    ELSE IF express = 4 THEN Obj(NoFields)
    ELSE NotAnObject("undefined")

\* a response sent before any store method was called
Respond(req, status, message, remaining) ==
    [NoOp EXCEPT !.op = "request", !.req = req, !.status = status, !.message = message,
                 !.remaining = remaining]

\* the handler of req called store method `op`
Arrived(req, op, arg, sync, remaining) ==
    [Called(op, req.id, arg, sync) EXCEPT !.req = req, !.remaining = remaining]

\* the response sent for an event of a store call
Answer(event, status, message) ==
    [event EXCEPT !.status = status, !.message = message]

\* the collection the calls made so far give when run one at a time: `alone`
\* is the call run on `serial`, which is what `sync` is when serial = items
Serially(sync, alone) == IF serial = items THEN sync.items ELSE alone

\* the request was answered without a call of the store
Unchanged(bkts, response) ==
    [items |-> items, serial |-> serial, uuids |-> uuids, buckets |-> bkts,
     suspended |-> FALSE, ret |-> RetNone, last |-> response]

\* the handler called a store method: it has answered (the method threw or
\* returned before persist()) or is suspended at its await
Changed(sync, alone, bkts, drawn, event) ==
    [items |-> sync.items, serial |-> Serially(sync, alone), uuids |-> uuids + drawn,
     buckets |-> bkts, suspended |-> sync.persist, ret |-> sync.ret, last |-> event]

\* Array.prototype.sort with (a, b) => new Date(a.expiresOn) - new Date(b.expiresOn):
\* the sort is stable, records of equal expiry keep their order
RECURSIVE SortByExpiry(_)
SortByExpiry(list) ==
    IF list = <<>> THEN <<>>
    ELSE LET a == list[Len(list)]
             sorted == SortByExpiry(SubSeq(list, 1, Len(list) - 1))
             before == Cardinality({i \in 1..Len(sorted) :
                            NewDate(sorted[i].item.expiresOn).ms
                                <= NewDate(a.item.expiresOn).ms})
         IN  SubSeq(sorted, 1, before) \o <<a>> \o SubSeq(sorted, before + 1, Len(sorted))

\* Array.prototype.filter((item) => item.status === statusFilter)
RECURSIVE FilterByStatus(_, _)
FilterByStatus(list, statusFilter) ==
    IF list = <<>> THEN <<>>
    ELSE (IF Head(list).status = statusFilter THEN <<Head(list)>> ELSE <<>>)
         \o FilterByStatus(Tail(list), statusFilter)

\* the listing that accepts any filter and finds nothing for an unknown one
ListItems_AnyFilter(req, lim) ==
    LET statusFilter == ToLowerCase(ToString(Coalesce(req.query, Str(StatusAll))))
        allItems == SortByExpiry([i \in 1..Len(items) |-> toApiItem(items[i], clock)])
        filtered == IF statusFilter = StatusAll THEN allItems
                    ELSE FilterByStatus(allItems, statusFilter)
    IN  Unchanged(lim.buckets,
                  [Respond(req, 200, "", lim.remaining) EXCEPT !.list = filtered,
                                                               !.total = Len(filtered)])

\* app.get("/api/items")
ListItems(req, lim) ==
    LET statusFilter == ToLowerCase(ToString(Coalesce(req.query, Str(StatusAll))))
        allItems == SortByExpiry([i \in 1..Len(items) |-> toApiItem(items[i], clock)])
        filtered == IF statusFilter = StatusAll THEN allItems
                    ELSE FilterByStatus(allItems, statusFilter)
    IN  IF statusFilter \notin {StatusAll, StatusFresh, StatusExpiring, StatusExpired}
        THEN Unchanged(lim.buckets,
                       Respond(req, 400, "status must be one of: all, fresh, expiring, expired",
                               lim.remaining))
        ELSE Unchanged(lim.buckets,
                       [Respond(req, 200, "", lim.remaining) EXCEPT !.list = filtered,
                                                               !.total = Len(filtered)])

\* app.post("/api/items") up to `await store.create(req.body, now())`: a
\* payload that normalizeItem refuses is answered 400 at once
PostItem(req, express, lim) ==
    LET body == ReqBody(req, express)
        sync == createSync(items, body, clock, Uuid(uuids + 1))
        alone == createSync(serial, body, clock, Uuid(uuids + 1)).items
        drawn == IF DrawsUuid(body) THEN 1 ELSE 0
        event == Arrived(req, "create", body, sync, lim.remaining)
    IN  IF sync.threw
        THEN Changed(sync, alone, lim.buckets, drawn, Answer(event, 400, sync.error))
        ELSE Changed(sync, alone, lim.buckets, drawn, event)

\* app.post("/api/items") once store.create has settled: `toApiItem(created,
\* now())` reads the clock again
PostItemResumed(event) ==
    IF event.threw
    THEN Answer(event, 400, event.error)
    ELSE [Answer(event, 201, "") EXCEPT !.list = <<toApiItem(event.ret.item, clock)>>]

\* app.patch("/api/items/:id") up to `await store.update(...)`: an unknown
\* id is answered 404 and an invalid merged record 400 at once
PatchItem(req, express, lim) ==
    LET body == ReqBody(req, express)
        sync == updateSync(items, req.id, body, clock, Uuid(uuids + 1))
        alone == updateSync(serial, req.id, body, clock, Uuid(uuids + 1)).items
        event == Arrived(req, "update", body, sync, lim.remaining)
    IN  IF sync.threw
        THEN Changed(sync, alone, lim.buckets, 0, Answer(event, 400, sync.error))
        ELSE IF sync.ret.kind = "null"
        THEN Changed(sync, alone, lim.buckets, 0, Answer(event, 404, "Item not found"))
        ELSE Changed(sync, alone, lim.buckets, 0, event)

\* app.patch("/api/items/:id") once store.update has settled
PatchItemResumed(event) ==
    IF event.threw
    THEN Answer(event, 400, event.error)
    ELSE [Answer(event, 200, "") EXCEPT !.list = <<toApiItem(event.ret.item, clock)>>]

\* app.delete("/api/items/:id") up to `await store.remove(req.params.id)`:
\* an unknown id is answered 404 at once
DeleteItem(req, express, lim) ==
    LET sync == removeSync(items, req.id)
        alone == removeSync(serial, req.id).items
        event == Arrived(req, "remove", Obj(NoFields), sync, lim.remaining)
    IN  IF sync.ret.kind = "false"
        THEN Changed(sync, alone, lim.buckets, 0, Answer(event, 404, "Item not found"))
        ELSE Changed(sync, alone, lim.buckets, 0, event)

\* app.delete("/api/items/:id") once store.remove has settled. The handler
\* has no try/catch: a rejection reaches the error handler (500) through
\* Express 5 only; under Express 4 nothing is sent (status 0).
DeleteItemResumed(event, express) ==
    IF ~event.threw THEN Answer(event, 204, "")
    ELSE IF express = 5 THEN Answer(event, 500, "Internal server error")
    ELSE Answer(event, 0, "")

\* The promise of an async handler rejected and nothing handles it (Express 4
\* ignores the handler's return value, the DELETE handler catches nothing,
\* startServer installs no unhandledRejection listener): Node terminates
\* the process.
Unhandled(w, r) ==
    /\ w.call.req.method = "DELETE"
    /\ w.express = 4
    /\ r.threw

\* the event when the call suspended as w settles as r: the caller's
\* continuation, which for a request is the rest of its handler
Resume(w, r, io) ==
    CASE w.call.req.method = "POST" -> PostItemResumed(Done(w, r, io))
      [] w.call.req.method = "PATCH" -> PatchItemResumed(Done(w, r, io))
      [] w.call.req.method = "DELETE" -> DeleteItemResumed(Done(w, r, io), w.express)
      [] OTHER -> Done(w, r, io)

\* the routes, reached once every middleware has called next()
Route(req, express, lim) ==
    CASE req.method = "GET" /\ req.path = "/health" ->
            Unchanged(lim.buckets, Respond(req, 200, "", lim.remaining))
      [] req.method = "GET" /\ req.path = "/api/items" ->
            ListItems(req, lim)
      [] req.method = "POST" /\ req.path = "/api/items" ->
            PostItem(req, express, lim)
      [] req.method = "PATCH" /\ req.path = "/api/items/:id" ->
            PatchItem(req, express, lim)
      [] req.method = "DELETE" /\ req.path = "/api/items/:id" ->
            DeleteItem(req, express, lim)
      [] OTHER ->
            Unchanged(lim.buckets, Respond(req, 404, "", lim.remaining))

\* One request through app, up to its response or to the await of its
\* handler: express.json(), the header middleware, the rate limiter, the
\* origin check, then the route; a body-parser error goes straight to the
\* error handler.
Handle(req, express) ==
    LET lim == limiter(buckets, req.ip, clock, WindowMs, MaxRequests)
    IN  IF req.body.kind = "toolarge"
        THEN Unchanged(buckets, Respond(req, 413, "Request body too large", 0))
        ELSE IF req.body.kind = "malformed"
        THEN Unchanged(buckets, Respond(req, 400, "Malformed JSON body", 0))
        ELSE IF ~lim.allowed
        THEN Unchanged(lim.buckets, Respond(req, 429, "Too many requests", lim.remaining))
        ELSE IF req.origin # "" /\ req.origin \notin DEFAULT_ALLOWED_ORIGINS
        THEN Unchanged(lim.buckets, Respond(req, 403, "Origin is not allowed", lim.remaining))
        ELSE IF req.method = "OPTIONS"
        THEN Unchanged(lim.buckets, Respond(req, 204, "", lim.remaining))
        ELSE Route(req, express, lim)

----------------------------------------------------------------------------
(* The steps of the program.  A store method runs up to `await persist()`  *)
(* in one step; persist() is suspended at `await fs.mkdir` and at `await   *)
(* fs.writeFile`, and other calls and requests run while it is.            *)

Init ==
    /\ items = <<>>
    /\ disk = Absent
    /\ seed = NoSeed
    /\ clock = 0
    /\ uuids = 0
    /\ buckets = NoBuckets
    /\ inflight = {}
    /\ serial = <<>>
    /\ calls = 0
    /\ hits = <<>>
    /\ up = FALSE
    /\ last = NoOp

\* no call is suspended in persist()
Idle == inflight = {}

\* fewer than MaxCalls store calls have been made since the last start
Few == calls < MaxCalls

\* startServer: the process (re)starts, a new store runs init() and a new
\* app starts with an empty limiter; the calls suspended in the process
\* before it are gone
Start(io) ==
    \E dsk \in Abandoned(disk, inflight) :
        \E r \in {ensureLoaded(dsk, seed, clock, uuids, io)} :
            /\ items' = r.items
            /\ serial' = r.items
            /\ disk' = r.disk
            /\ uuids' = uuids + r.drawn
            /\ up' = ~r.threw
            /\ last' = [NoOp EXCEPT !.op = "init", !.threw = r.threw,
                                    !.persisted = r.persisted,
                                    !.io = IF r.persisted THEN io ELSE "ok"]
            /\ buckets' = NoBuckets
            /\ inflight' = {}
            /\ calls' = 0
            /\ UNCHANGED <<seed, clock, hits>>

\* one more call of a store method
Counted == IF calls < MaxCalls THEN calls + 1 ELSE calls

\* a store method called directly: its synchronous part
Invoked(event, sync, alone) ==
    /\ up
    /\ calls' = Counted
    /\ sync.persist => Cardinality(inflight) < MaxInflight
    /\ Len(sync.items) <= MaxItems
    /\ items' = sync.items
    /\ serial' = Serially(sync, alone)
    /\ inflight' = IF sync.persist
                   THEN inflight \cup {Persisting(event, sync.ret, 0)}
                   ELSE inflight
    /\ last' = event
    /\ UNCHANGED <<disk, seed, clock, buckets, hits, up>>

\* store.create(rawItem, now) up to `await persist()`
StoreCreate(rawItem) ==
    \E sync \in {createSync(items, rawItem, clock, Uuid(uuids + 1))} :
        /\ DrawsUuid(rawItem) => uuids < MaxUuids
        /\ uuids' = IF DrawsUuid(rawItem) THEN uuids + 1 ELSE uuids
        /\ Invoked(Called("create", Undef, rawItem, sync), sync,
                   createSync(serial, rawItem, clock, Uuid(uuids + 1)).items)

\* store.update(id, patch, now) up to `await persist()`
StoreUpdate(id, patch) ==
    \E sync \in {updateSync(items, id, patch, clock, Uuid(uuids + 1))} :
        /\ UNCHANGED uuids
        /\ Invoked(Called("update", id, patch, sync), sync,
                   updateSync(serial, id, patch, clock, Uuid(uuids + 1)).items)

\* store.remove(id) up to `await persist()`
StoreRemove(id) ==
    \E sync \in {removeSync(items, id)} :
        /\ UNCHANGED uuids
        /\ Invoked(Called("remove", id, Obj(NoFields), sync), sync,
                   removeSync(serial, id).items)

\* One request from its arrival to its response or to the await of its
\* handler.
HttpRequest(req, express) ==
    /\ up
    /\ \E h \in {Handle(req, express)} :
        /\ h.suspended => Cardinality(inflight) < MaxInflight
        /\ Len(h.items) <= MaxItems
        /\ h.uuids <= MaxUuids
        /\ items' = h.items
        /\ serial' = h.serial
        /\ calls' = IF h.last.op = "request" THEN calls ELSE Counted
        /\ uuids' = h.uuids
        /\ buckets' = h.buckets
        /\ inflight' = IF h.suspended
                       THEN inflight \cup {Persisting(h.last, h.ret, express)}
                       ELSE inflight
        /\ last' = h.last
        /\ UNCHANGED <<disk, seed, clock, hits, up>>

\* persist() of w settles with outcome io, the file holding dsk: the method
\* settles and its caller goes on. A rejection nothing handles takes the
\* process down, with it the collection, the limiter and every suspended
\* call.
Settle(w, io, dsk) ==
    \E r \in {Settled(w, io)} :
        IF Unhandled(w, r)
        THEN /\ up' = FALSE
             /\ items' = <<>>
             /\ serial' = <<>>
             /\ buckets' = NoBuckets
             /\ inflight' = {}
             /\ disk' \in Abandoned(dsk, inflight \ {w})
             /\ last' = Resume(w, r, io)
             /\ UNCHANGED <<seed, clock, uuids, calls, hits>>
        ELSE /\ items' = AfterPersist(items, w)
             /\ disk' = dsk
             /\ inflight' = inflight \ {w}
             /\ last' = Resume(w, r, io)
             /\ UNCHANGED <<seed, clock, uuids, buckets, serial, calls, hits, up>>

\* the writes to the data file in progress
Writing == {o \in inflight : o.phase = "write"}

\* fs.mkdir settles: persist() goes on to fs.writeFile with the collection
\* as it is now, next to the writes already in progress, or rejects
MkdirDone(w, io) ==
    /\ w.phase = "mkdir"
    /\ IF io = "ok"
       THEN /\ inflight' = (inflight \ ({w} \cup Writing))
                    \cup {[w EXCEPT !.phase = "write", !.its = items,
                                    !.met = {o.its : o \in Writing}]}
                    \cup {[o EXCEPT !.met = @ \cup {items}] : o \in Writing}
            /\ UNCHANGED <<items, disk, seed, clock, uuids, buckets, serial, calls, hits, up, last>>
       ELSE Settle(w, io, disk)

\* fs.writeFile settles
WriteDone(w, io) ==
    /\ w.phase = "write"
    /\ \E dsk \in Written(w, disk, io) : Settle(w, io, dsk)

Tick ==
    /\ clock < MaxClock
    /\ clock' = clock + 1
    /\ UNCHANGED <<items, disk, seed, uuids, buckets, inflight, serial, calls, hits, up, last>>

----------------------------------------------------------------------------
(* The store used through its own interface, each call awaited before the  *)
(* next is made (Spec).                                                    *)

\* a payload that brings its own id and creation time
Supplied(id) == Obj([MilkPayload.f EXCEPT !.id = id, !.createdAt = DateStr(5 * DayMs)])

CreateInputs(its) ==
    {MilkPayload, NotAnObject("array")} \cup {Supplied(id) : id \in KnownIds(its)}

Patches == {EmptyPatch, IdentityPatch, Obj([NoFields EXCEPT !.name = Str(<<" ">>)])}

\* the answers of fs.writeFile drawn when the store is driven directly
StoreIo == {"ok", "ENOSPC"}

Next ==
    \/ \E io \in StoreIo : Idle /\ Start(io)
    \/ \E rawItem \in CreateInputs(items) : Idle /\ StoreCreate(rawItem)
    \/ \E id \in KnownIds(items), patch \in Patches : Idle /\ StoreUpdate(id, patch)
    \/ \E id \in KnownIds(items) : Idle /\ StoreRemove(id)
    \/ \E w \in inflight : MkdirDone(w, "ok")
    \/ \E w \in inflight, io \in StoreIo : WriteDone(w, io)
    \/ Tick

Spec == Init /\ [][Next]_vars

----------------------------------------------------------------------------
(* Claims about the store driven one call at a time (Spec).                *)

\* C1: no two records of the collection have the same id, in every state
\* reached by init, create, update and remove.
C1_UniqueIds ==
    \A i, j \in 1..Len(items) : i # j => items[i].id # items[j].id

\* C2: an update of an existing record keeps the record's id and createdAt
\* whatever the patch holds, keeps it at its index and every other record as
\* it was, and, once the merged record has passed validation, leaves
\* updatedAt at the `now` of the call.
C2_UpdateKeepsIdentity ==
    [][( /\ last'.op = "update"
         /\ StoreUpdate(last'.id, last'.arg)
         /\ \E i \in 1..Len(items) : items[i].id = last'.id )
        => LET index == findIndex(items, last'.id)
           IN  /\ Len(items') = Len(items)
               /\ items'[index].id = items[index].id
               /\ items'[index].createdAt = items[index].createdAt
               /\ \A j \in 1..Len(items) : j # index => items'[j] = items[j]
               /\ ~last'.validation =>
                      items'[index].updatedAt = ToISOString(clock)]_vars

\* an update whose patch carried its own id and createdAt has been applied, at
\* a time other than the record's creation, and its record is in the collection
C2_Witness ==
    /\ last.op = "update"
    /\ last.settled
    /\ last.arg = IdentityPatch
    /\ last.ret.kind = "item"
    /\ last.ret.item.id # IdentityPatch.f.id
    /\ last.ret.item.createdAt # IdentityPatch.f.createdAt
    /\ last.ret.item.updatedAt # last.ret.item.createdAt
    /\ \E i \in 1..Len(items) : items[i] = last.ret.item

\* a create, update or remove that changed the collection and whose
\* persist() succeeded was the last call
MutationSucceeded ==
    /\ last.op \in {"create", "update", "remove"}
    /\ last.settled
    /\ last.persisted
    /\ ~last.threw

\* C5: after a create, update or remove that completed successfully the data
\* file holds the in-memory collection: a new store running init() on that
\* file lists the same records in the same order.
C5_FileHoldsCollection ==
    MutationSucceeded =>
        /\ disk.state = "file"
        /\ ~ensureLoaded(disk, seed, clock, uuids, "ok").threw
        /\ ensureLoaded(disk, seed, clock, uuids, "ok").items = items

C5_Witness ==
    /\ MutationSucceeded
    /\ last.op = "update"
    /\ Len(items) = 2
    /\ items[1] # items[2]

----------------------------------------------------------------------------
(* One record at a time, with the field values that exercise the           *)
(* normaliser (SpecFields).                                                *)

FieldPayloads ==
    {MilkPayload, PaddedPayload, LongPayload, DottedPayload} \cup InvalidPayloads

FieldPatches ==
    ValidPatches \cup InvalidPatches
    \cup {Obj([NoFields EXCEPT !.category = Null, !.notes = Str(<<" ">> \o Dairy)]),
          Obj([NoFields EXCEPT !.name = LongPayload.f.name,
                               !.category = DottedPayload.f.category])}

NextFields ==
    \/ Idle /\ Start("ok")
    \/ \E rawItem \in FieldPayloads : Idle /\ Len(items) = 0 /\ StoreCreate(rawItem)
    \/ \E patch \in FieldPatches : Idle /\ Len(items) = 1 /\ StoreUpdate(items[1].id, patch)
    \/ Idle /\ Len(items) = 1 /\ StoreRemove(items[1].id)
    \/ \E w \in inflight : MkdirDone(w, "ok")
    \/ \E w \in inflight : WriteDone(w, "ok")
    \/ Tick

SpecFields == Init /\ [][NextFields]_vars

IsTrimmed(s) == s = <<>> \/ (s[1] \notin Whitespace /\ s[Len(s)] \notin Whitespace)

\* C6: an update whose patch changes no field leaves every field of the
\* record but updatedAt as create (or an earlier update) stored it.
C6_RenormalizeIsIdentity ==
    [][(Len(items) = 1 /\ StoreUpdate(items[1].id, EmptyPatch)) =>
          \A k \in Fields \ {"updatedAt"} : items'[1][k] = items[1][k]]_vars

\* C7: every stored record has a non-empty trimmed name of at most 80 code
\* units, a trimmed lower-case category of at most 40 and trimmed notes of
\* at most 240.
C7_StoredStringsInShape ==
    \A i \in 1..Len(items) :
        /\ items[i].name.t = "string"
        /\ items[i].name.s # <<>>
        /\ Len(items[i].name.s) <= NameMaxLength
        /\ IsTrimmed(items[i].name.s)
        /\ items[i].category.t = "string"
        /\ Len(items[i].category.s) <= CategoryMaxLength
        /\ IsTrimmed(items[i].category.s)
        /\ ToLowerCase(items[i].category.s) = items[i].category.s
        /\ items[i].notes.t = "string"
        /\ Len(items[i].notes.s) <= NotesMaxLength
        /\ IsTrimmed(items[i].notes.s)

----------------------------------------------------------------------------
(* Requests to the server (SpecHttp).                                      *)

HttpIps == {"10.0.0.1"}

PostBodies ==
    {JsonBody(json) : json \in {MilkPayload} \cup InvalidPayloads}
    \cup {NoBody, MalformedBody, TooLargeBody}

PatchBodies ==
    {JsonBody(json) : json \in {EmptyPatch, QuantityPatch} \cup InvalidPatches}
    \cup {NoBody, MalformedBody}

Origins == {"", AllowedOrigin, BlockedOrigin}

Requests(its) ==
    {Request(ip, "GET", "/health", Undef, "", NoBody) : ip \in HttpIps}
    \cup {Request(ip, "GET", "/api/items", Undef, "", NoBody) : ip \in HttpIps}
    \cup {Request(ip, "OPTIONS", "/api/items", Undef, AllowedOrigin, NoBody) : ip \in HttpIps}
    \cup {Request(ip, "PUT", "/api/items", Undef, "", NoBody) : ip \in HttpIps}
    \cup {Request(ip, "POST", "/api/items", Undef, origin, JsonBody(MilkPayload)) :
            ip \in HttpIps, origin \in Origins}
    \cup {Request(ip, "POST", "/api/items", Undef, "", body) :
            ip \in HttpIps, body \in PostBodies}
    \cup {Request(ip, "PATCH", "/api/items/:id", id, "", body) :
            ip \in HttpIps, id \in KnownIds(its), body \in PatchBodies}
    \cup {Request(ip, "DELETE", "/api/items/:id", id, "", NoBody) :
            ip \in HttpIps, id \in KnownIds(its)}

\* The Express version shows only in a request without a body and in
\* DELETE: elsewhere one choice stands for all.
ExpressChoices(req) ==
    IF req.body.kind = "none" \/ req.method = "DELETE" THEN ExpressVersions ELSE {5}

\* the requests that arrive while a handler is suspended: a listing and
\* one of each call of the store, to a stored id or to one that is not
Overlapping(its) ==
    {Request(ip, "GET", "/api/items", Undef, "", NoBody) : ip \in HttpIps}
    \cup {Request(ip, "POST", "/api/items", Undef, "", JsonBody(MilkPayload)) :
            ip \in HttpIps}
    \cup {Request(ip, "PATCH", "/api/items/:id", id, "", JsonBody(QuantityPatch)) :
            ip \in HttpIps, id \in KnownIds(its)}
    \cup {Request(ip, "DELETE", "/api/items/:id", id, "", NoBody) :
            ip \in HttpIps, id \in KnownIds(its)}

Arrivals == IF Idle THEN Requests(items) ELSE Overlapping(items)

\* Requests arrive whenever they like, also while the handlers of earlier
\* ones are suspended, and the process is restarted whenever, also in the
\* middle of a write. Date.now() stands still here: SpecList moves it
\* while a handler is suspended, SpecLimiter across the windows.
NextHttp ==
    \/ \E io \in IoOutcomes : Start(io)
    \/ \E req \in Arrivals :
         \E express \in ExpressChoices(req) :
            /\ Few \/ req.method \notin {"POST", "PATCH", "DELETE"}
            /\ HttpRequest(req, express)
    \/ \E w \in inflight, io \in MkdirOutcomes : MkdirDone(w, io)
    \/ \E w \in inflight, io \in IoOutcomes : WriteDone(w, io)

SpecHttp == Init /\ [][NextHttp]_vars

----------------------------------------------------------------------------
(* Claims about requests (SpecHttp).                                       *)

ValidationMessages ==
    {"item payload must be a JSON object", "expiresOn must be a valid ISO date value",
     "name is required"}

\* a POST body that is not an object, has no name or a blank one, or has no
\* expiresOn or one that is no date
InvalidCreate(body) ==
    \/ body.shape # "object"
    \/ body = Obj(NoFields)
    \/ body \in BadNamePayloads \cup BadDatePayloads

\* the step is the arrival of request last'.req at the handler of `method`
RouteStep(method, express) ==
    /\ last'.op # "request"
    /\ last'.req.method = method
    /\ HttpRequest(last'.req, express)

\* C3: a POST whose payload is invalid and a PATCH of an existing id whose
\* merged record is invalid are answered 400 with the validation message,
\* and the collection and the data file stay as they were.
C3_InvalidIsRejected ==
    [][\A express \in ExpressVersions :
          ( \/ RouteStep("POST", express) /\ InvalidCreate(last'.arg)
            \/ /\ RouteStep("PATCH", express)
               /\ \E i \in 1..Len(items) : items[i].id = last'.req.id
               /\ last'.arg \in InvalidPatches )
          => /\ last'.settled
             /\ last'.status = 400
             /\ last'.message \in ValidationMessages
             /\ last'.validation
             /\ ~last'.persisted
             /\ items' = items
             /\ disk' = disk
             /\ inflight' = inflight]_vars

\* a PATCH of a stored record was refused as invalid
C3_Witness ==
    /\ last.op = "update"
    /\ last.arg \in InvalidPatches
    /\ \E i \in 1..Len(items) : items[i].id = last.req.id
    /\ last.status = 400
    /\ Idle
    /\ disk = File(JsonStringify(items))

\* C4: a PATCH or DELETE of an id that is not in the collection is answered
\* 404 (update returned null, remove returned false) whatever the patch,
\* and nothing is changed or written.
C4_UnknownIdIsNotFound ==
    [][\A express \in ExpressVersions :
          ( /\ RouteStep("PATCH", express) \/ RouteStep("DELETE", express)
            /\ \A i \in 1..Len(items) : items[i].id # last'.req.id )
          => /\ last'.settled
             /\ last'.status = 404
             /\ ~last'.threw
             /\ last'.ret.kind = (IF last'.req.method = "PATCH" THEN "null" ELSE "false")
             /\ ~last'.persisted
             /\ items' = items
             /\ disk' = disk
             /\ inflight' = inflight]_vars

\* a patch that would fail validation was sent to an id the collection, which
\* holds a record, does not have
C4_Witness ==
    /\ last.op = "update"
    /\ last.arg \in InvalidPatches
    /\ \A i \in 1..Len(items) : items[i].id # last.req.id
    /\ last.status = 404
    /\ Len(items) >= 1

\* C10: a persist() that fails during POST, PATCH or DELETE is answered 500
\* with the generic message, and 400 answers only validation failures and
\* malformed JSON.
C10_IoFailureIs500 ==
    /\ (last.op \in {"create", "update", "remove"} /\ last.persisted /\ last.io # "ok")
            => (last.status = 500 /\ last.message = "Internal server error")
    /\ last.status = 400 => (last.validation \/ last.message = "Malformed JSON body")

----------------------------------------------------------------------------
(* The limiter on its own (SpecLimiter).                                   *)

\* limiter(ip, Date.now()) as the middleware calls it
Limit(ip) ==
    \E r \in {limiter(buckets, ip, clock, WindowMs, MaxRequests)} :
        /\ Len(hits) < MaxLog
        /\ buckets' = r.buckets
        /\ hits' = Append(hits, [ip |-> ip, at |-> clock, allowed |-> r.allowed,
                                 remaining |-> r.remaining])
        /\ last' = [NoOp EXCEPT !.op = "limit",
                                !.status = IF r.allowed THEN 0 ELSE 429,
                                !.remaining = r.remaining]
        /\ UNCHANGED <<items, disk, seed, clock, uuids, inflight, serial, calls, up>>

\* time passes, far enough for two windows to elapse
TickLimiter ==
    /\ clock < 2 * WindowMs + 1
    /\ clock' = clock + 1
    /\ UNCHANGED <<items, disk, seed, uuids, buckets, inflight, serial, calls, hits, up, last>>

NextLimiter ==
    \/ \E ip \in Ips : Limit(ip)
    \/ TickLimiter

SpecLimiter == Init /\ [][NextLimiter]_vars

\* the request of the same address before request k (0: none)
PrevHit(k) ==
    IF \E j \in 1..(k - 1) : hits[j].ip = hits[k].ip
    THEN CHOOSE j \in 1..(k - 1) :
            /\ hits[j].ip = hits[k].ip
            /\ \A i \in (j + 1)..(k - 1) : hits[i].ip # hits[k].ip
    ELSE 0

\* The start of the fixed window request k falls in: its own time when it is
\* the address's first request or comes at or after the end of the window of
\* the request before it, else that window's start.
RECURSIVE WindowStart(_)
WindowStart(k) ==
    IF PrevHit(k) = 0 THEN hits[k].at
    ELSE IF hits[k].at >= WindowStart(PrevHit(k)) + WindowMs THEN hits[k].at
    ELSE WindowStart(PrevHit(k))

\* the requests of k's address in k's window, up to and including k
InWindowUpTo(k) ==
    {j \in 1..k : hits[j].ip = hits[k].ip /\ WindowStart(j) = WindowStart(k)}

LastHitOf(ip) ==
    IF \E k \in 1..Len(hits) : hits[k].ip = ip
    THEN CHOOSE k \in 1..Len(hits) :
            /\ hits[k].ip = ip
            /\ \A j \in (k + 1)..Len(hits) : hits[j].ip # ip
    ELSE 0

\* C8: per address, the first maxRequests requests of a fixed window are
\* allowed (remaining counting down from maxRequests - 1) and the later ones
\* denied with remaining 0; a denied request changes neither the window nor
\* the count; the first request at or after windowStart + windowMs starts a
\* new window.
C8_FixedWindow ==
    /\ \A k \in 1..Len(hits) :
        LET n == Cardinality(InWindowUpTo(k))
        IN  /\ hits[k].allowed <=> n <= MaxRequests
            /\ hits[k].remaining = IF n <= MaxRequests THEN MaxRequests - n ELSE 0
            /\ Cardinality({j \in InWindowUpTo(k) : hits[j].allowed}) <= MaxRequests
    /\ \A ip \in Ips :
        LET k == LastHitOf(ip)
        IN  IF k = 0 THEN ~buckets[ip].present
            ELSE /\ buckets[ip].present
                 /\ buckets[ip].windowStartMs = WindowStart(k)
                 /\ buckets[ip].count = Min2(Cardinality(InWindowUpTo(k)), MaxRequests)

\* an address was denied inside its window and allowed again, with
\* maxRequests - 1 remaining, once the window had elapsed
C8_Witness ==
    \E j, k \in 1..Len(hits) :
        /\ j < k
        /\ hits[j].ip = hits[k].ip
        /\ ~hits[j].allowed
        /\ hits[j].at > WindowStart(j)
        /\ hits[k].allowed
        /\ hits[k].remaining = MaxRequests - 1
        /\ hits[k].at = WindowStart(j) + WindowMs

----------------------------------------------------------------------------
(* Overlapping store calls (SpecOverlap): calls are made while earlier     *)
(* ones are suspended in persist(); no write fails.                        *)

OverlapPatches == {QuantityPatch, Obj([NoFields EXCEPT !.name = Str(<<" ">>)])}

NextOverlap ==
    \/ ~up /\ Start("ok")
    \/ \E rawItem \in CreateInputs(items) : Few /\ StoreCreate(rawItem)
    \/ \E id \in KnownIds(items), patch \in OverlapPatches : Few /\ StoreUpdate(id, patch)
    \/ \E id \in KnownIds(items) : Few /\ StoreRemove(id)
    \/ \E w \in inflight : MkdirDone(w, "ok")
    \/ \E w \in inflight : WriteDone(w, "ok")
    \/ Tick

SpecOverlap == Init /\ [][NextOverlap]_vars

\* C9: however create, update and remove calls overlap, the in-memory
\* collection equals the result of executing the calls made so far one at a
\* time in the order they were invoked, starting from the collection the
\* store loaded.
C9_NoLostChange ==
    up => items = serial

\* every write has resolved, and the call that settled last was an update or
\* remove that changed the collection and was made while an earlier call
\* was suspended in persist()
C9_Witness ==
    /\ Idle
    /\ last.settled
    /\ last.op \in {"update", "remove"}
    /\ last.persisted
    /\ last.pending >= 1

----------------------------------------------------------------------------
(* Restarts with a seed file (SpecSeed).                                   *)

\* a seed record with its own id, and the seed files tried: none, one
\* record, two records (the second draws its id), a record that is no object
SeedRecord == WithId(MilkPayload, Str(<<"s">>))

Seeds ==
    {NoSeed, SeedFile(<<SeedRecord>>), SeedFile(<<SeedRecord, MilkPayload>>),
     SeedFile(<<NotAnObject("array")>>)}

InitSeed ==
    /\ items = <<>>
    /\ disk = Absent
    /\ seed \in Seeds
    /\ clock = 0
    /\ uuids = 0
    /\ buckets = NoBuckets
    /\ inflight = {}
    /\ serial = <<>>
    /\ calls = 0
    /\ hits = <<>>
    /\ up = FALSE
    /\ last = NoOp

\* the seed file is replaced while the server is down or running
EditSeed(sd) ==
    /\ sd # seed
    /\ seed' = sd
    /\ UNCHANGED <<items, disk, clock, uuids, buckets, inflight, serial, calls, hits, up, last>>

\* the server is restarted between calls, not in the middle of one
NextSeed ==
    \/ \E io \in IoOutcomes :
        /\ Idle
        /\ uuids + ensureLoaded(disk, seed, clock, uuids, io).drawn <= MaxUuids
        /\ Start(io)
    \/ \E id \in KnownIds(items) : Idle /\ StoreUpdate(id, QuantityPatch)
    \/ \E id \in KnownIds(items) : Idle /\ StoreRemove(id)
    \/ \E w \in inflight, io \in MkdirOutcomes : MkdirDone(w, io)
    \/ \E w \in inflight, io \in IoOutcomes : WriteDone(w, io)
    \/ \E sd \in Seeds : EditSeed(sd)
    \/ Tick

SpecSeed == InitSeed /\ [][NextSeed]_vars

\* C11: init() takes the collection from the runtime file whenever the file
\* exists, whatever the seed file holds; it seeds only when the file does
\* not exist and then writes it; the file, once written, never disappears,
\* so after a successful init() no restart seeds again and a record removed
\* (and persisted) before a restart is not back after it.
C11_SeedsOnlyOnce ==
    [][/\ disk.state # "absent" => disk'.state # "absent"
       /\ up' => disk'.state # "absent"
       /\ (last'.op = "init" /\ \E io \in IoOutcomes : Start(io)) =>
            /\ disk.state = "file" =>
                    (up' /\ items' = JsonParse(disk.text) /\ disk' = disk)
            /\ (disk.state = "absent" /\ up') =>
                    /\ items' = loadSeedItems(seed, clock, uuids).items
                    /\ disk' = File(JsonStringify(items'))
            /\ (last.op = "remove" /\ last.settled /\ last.persisted /\ ~last.threw) =>
                    (up' /\ items' = items)]_vars

\* a restart with the two-record seed file in place after the seed record
\* "s" was removed: the collection holds only the other seeded record
C11_Witness ==
    /\ last.op = "init"
    /\ up
    /\ seed = SeedFile(<<SeedRecord, MilkPayload>>)
    /\ Len(items) = 1
    /\ items[1].id = Uuid(1)
    /\ disk = File(JsonStringify(items))

----------------------------------------------------------------------------
(* Listing and statuses over several days (SpecList).                      *)

\* local midnight falls at 17:00 UTC: instants just before and at it
BeforeMidnight == 17 * HourMs - 1
Midnight == 17 * HourMs

\* the reference instants, on three local days
ListNows == {0, BeforeMidnight, Midnight, DayMs + BeforeMidnight, DayMs + Midnight}

\* expiry instants on local days 0, 7, 8 and 9
ListExpiries ==
    {0, 7 * DayMs + BeforeMidnight, 7 * DayMs + Midnight, 9 * DayMs}

ExpiryPayload(e) == Obj([MilkPayload.f EXCEPT !.expiresOn = DateStr(e)])

\* the status query: none, the four filters, one in capitals, two unknown
Queries ==
    {Undef, Str(StatusAll), Str(StatusFresh), Str(StatusExpiring), Str(StatusExpired),
     Str(<<"F", "R", "E", "S", "H">>), Str(<<"s", "t", "a", "l", "e">>), Str(<<>>)}

ListRequest(ip, query) ==
    [Request(ip, "GET", "/api/items", Undef, "", NoBody) EXCEPT !.query = query]

InitList ==
    /\ items = <<>>
    /\ disk = Absent
    /\ seed = NoSeed
    /\ clock \in {0, BeforeMidnight}
    /\ uuids = 0
    /\ buckets = NoBuckets
    /\ inflight = {}
    /\ serial = <<>>
    /\ calls = 0
    /\ hits = <<>>
    /\ up = FALSE
    /\ last = NoOp

\* itemStatus and toApiItem applied to an expiry date as given, at the
\* present instant
Classify(expiry) ==
    /\ last' = [NoOp EXCEPT !.op = "status",
                            !.list = <<toApiItem([NoFields EXCEPT !.expiresOn = DateStr(expiry)],
                                                 clock)>>]
    /\ UNCHANGED <<items, disk, seed, clock, uuids, buckets, inflight, serial, calls, hits, up>>

\* time passes to a later reference instant
Advance(t) ==
    /\ t > clock
    /\ clock' = t
    /\ UNCHANGED <<items, disk, seed, uuids, buckets, inflight, serial, calls, hits, up, last>>

\* records are created by POST, one at a time; listings are asked for at
\* any moment, also while a POST is suspended in its write
NextList ==
    \/ ~up /\ Start("ok")
    \/ \E e \in ListExpiries :
            /\ Idle
            /\ HttpRequest(Request("10.0.0.1", "POST", "/api/items", Undef, "",
                                   JsonBody(ExpiryPayload(e))), 5)
    \/ \E query \in Queries : HttpRequest(ListRequest("10.0.0.1", query), 5)
    \/ \E w \in inflight : MkdirDone(w, "ok")
    \/ \E w \in inflight : WriteDone(w, "ok")
    \/ \E e \in ListExpiries : Classify(e)
    \/ \E t \in ListNows : Advance(t)

SpecList == InitList /\ [][NextList]_vars

\* the calendar day, in local time, an instant falls on
LocalDay(ms) == (ms + LocalOffsetMs) \div DayMs

StatusOfDays(d) ==
    IF d < 0 THEN StatusExpired ELSE IF d <= 7 THEN StatusExpiring ELSE StatusFresh

\* C12: with d the number of calendar days from now's day to the expiry's
\* day, the status is expired iff d < 0, expiring iff 0 <= d <= 7 and fresh
\* iff d > 7, and every item the API returns carries daysLeft = d and the
\* status that goes with it (now being the instant the response is built).
C12_StatusByDays ==
    [][last' # last =>
        \A i \in 1..Len(last'.list) :
            LET a == last'.list[i]
                d == LocalDay(NewDate(a.item.expiresOn).ms) - LocalDay(clock')
            IN  /\ a.daysLeft = Finite(d, 1)
                /\ a.status = StatusOfDays(d)]_vars

\* a listing that returned a record expiring in exactly 7 days and a record
\* 8 days away that is fresh
C12_Witness ==
    /\ last.op = "request"
    /\ last.req.path = "/api/items"
    /\ Len(last.list) = 2
    /\ last.list[1].daysLeft = Finite(7, 1) /\ last.list[1].status = StatusExpiring
    /\ last.list[2].daysLeft = Finite(8, 1) /\ last.list[2].status = StatusFresh

----------------------------------------------------------------------------
(* Create followed by remove (Spec).                                       *)

\* C13: a create appends the record it returns, and a remove of the returned
\* record's id right after it takes exactly that record out again, so the
\* collection is as it was before the create (same records, same order).
C13_CreateRemoveRestores ==
    [][/\ (last'.op = "create" /\ ~last'.threw /\ StoreCreate(last'.arg))
            => \E w \in inflight' \ inflight :
                    /\ w.ret.kind = "item"
                    /\ items' = Append(items, w.ret.item)
       /\ (last.op = "create" /\ last.settled /\ ~last.threw
                /\ last'.op = "remove" /\ last'.id = last.ret.item.id
                /\ StoreRemove(last'.id))
            => Append(items', last.ret.item) = items]_vars

----------------------------------------------------------------------------
(* The listing (SpecList).                                                 *)

\* a GET /api/items that reached its route
ListStep ==
    /\ last'.op = "request"
    /\ last'.req.method = "GET"
    /\ last'.req.path = "/api/items"
    /\ last'.status \notin {403, 429}
    /\ HttpRequest(last'.req, 5)

\* how often a record occurs in a sequence of records
Occurrences(record, its) == Cardinality({i \in 1..Len(its) : its[i] = record})

\* the answer is 200 with the store's records of status f (all of them for
\* "all"), by ascending expiry, total counting them, and the store is as it was
ListedRight(f) ==
    /\ last'.status = 200
    /\ \A i, j \in 1..Len(last'.list) :
            i < j => NewDate(last'.list[i].item.expiresOn).ms
                        <= NewDate(last'.list[j].item.expiresOn).ms
    /\ \A i \in 1..Len(last'.list) :
            /\ last'.list[i].status =
                    StatusOfDays(LocalDay(NewDate(last'.list[i].item.expiresOn).ms)
                                    - LocalDay(clock))
            /\ f # StatusAll => last'.list[i].status = f
            /\ Occurrences(last'.list[i].item, [k \in 1..Len(last'.list) |-> last'.list[k].item])
                    = Occurrences(last'.list[i].item, items)
    /\ \A i \in 1..Len(items) :
            (f = StatusAll
                \/ StatusOfDays(LocalDay(NewDate(items[i].expiresOn).ms) - LocalDay(clock)) = f)
            => \E k \in 1..Len(last'.list) : last'.list[k].item = items[i]
    /\ last'.total = Len(last'.list)
    /\ items' = items
    /\ disk' = disk

ListRefused ==
    /\ last'.status = 400
    /\ last'.list = <<>>
    /\ items' = items
    /\ disk' = disk

Filters == {StatusAll, StatusFresh, StatusExpiring, StatusExpired}

\* C14 as stated: a status among all, fresh, expiring, expired (none given:
\* all) is answered 200 with exactly the records of that status ordered by
\* expiry, and every other status value is answered 400.
C14_ListExactFilters ==
    [][ListStep =>
        LET query == last'.req.query
        IN  IF query = Undef THEN ListedRight(StatusAll)
            ELSE IF query.s \in Filters THEN ListedRight(query.s)
            ELSE ListRefused]_vars

\* C14 with the status compared as the handler compares it, lower-cased: a
\* status that is one of all, fresh, expiring, expired but for the case of
\* its letters is answered as that filter; every other value is answered 400.
C14_ListFilters ==
    [][ListStep =>
        LET query == last'.req.query
            f == IF query = Undef THEN StatusAll ELSE ToLowerCase(query.s)
        IN  IF f \in Filters THEN ListedRight(f) ELSE ListRefused]_vars

\* a listing asked for FRESH that returned the one fresh record of two
C14_Witness ==
    /\ last.op = "request"
    /\ last.req.path = "/api/items"
    /\ last.req.query = Str(<<"F", "R", "E", "S", "H">>)
    /\ last.status = 200
    /\ Len(items) = 2
    /\ last.total = 1
    /\ last.list[1].status = StatusFresh

----------------------------------------------------------------------------
(* Quantities (SpecQuantity).                                              *)

\* the quantities tried: missing, null, below, at and above the limits,
\* fractions, strings, Infinity
Quantities ==
    {Undef, Null, Num(0), Num(-3), Num(QuantityMin), Num(2), Num(QuantityMax),
     Num(QuantityMax + 1), Num(5000), Frac(5, 2), Frac(2, 5),
     Str(<<"a", "b", "c">>), Str(<<"1", "2">>), Infinity}

QuantityPayload(q) == Obj([MilkPayload.f EXCEPT !.quantity = q])
QuantityPatchOf(q) == Obj([NoFields EXCEPT !.quantity = q])

NextQuantity ==
    \/ ~up /\ Start("ok")
    \/ \E q \in Quantities : Idle /\ Len(items) = 0 /\ StoreCreate(QuantityPayload(q))
    \/ \E q \in Quantities :
            Idle /\ Len(items) = 1 /\ StoreUpdate(items[1].id, QuantityPatchOf(q))
    \/ Idle /\ Len(items) = 1 /\ StoreRemove(items[1].id)
    \/ \E w \in inflight : MkdirDone(w, "ok")
    \/ \E w \in inflight : WriteDone(w, "ok")
    \/ Tick

SpecQuantity == Init /\ [][NextQuantity]_vars

IsStoredQuantity(v) ==
    v.t = "number" /\ v.d = 1 /\ v.n >= QuantityMin /\ v.n <= QuantityMax

\* the quantity given to the last create or update, which stored a record
GivenQuantity ==
    IF last.op = "update" /\ last.arg.f.quantity = Undef
    THEN items[findIndex(items, last.id)].quantity
    ELSE last.arg.f.quantity

\* what the stored quantity must be for input q; atInfinity is what Infinity
\* must give
QuantityAsClaimed(q, stored, atInfinity) ==
    /\ IsStoredQuantity(stored)
    /\ (q.t = "number" /\ q.n < QuantityMin * q.d) => stored = Num(QuantityMin)
    /\ (q.t = "number" /\ q.n > QuantityMax * q.d) => stored = Num(QuantityMax)
    /\ (q.t = "number" /\ q.d = 1 /\ q.n >= QuantityMin /\ q.n <= QuantityMax) => stored = q
    /\ q.t = "infinity" => stored = Num(atInfinity)
    /\ q.t \in {"undefined", "null"} => stored = Num(QuantityMin)
    /\ (q.t = "string" /\ ~IsDigits(Trim(q.s))) => stored = Num(QuantityMin)

StoredByLast == last.op \in {"create", "update"} /\ last.settled /\ last.ret.kind = "item"

\* C15 as stated: every stored quantity is an integer in [1, 999]; an input
\* below 1 is stored as 1, every input above 999 as 999, a non-numeric or
\* missing input as 1, an integer in [1, 999] unchanged.
C15_QuantityClamped ==
    /\ \A i \in 1..Len(items) : IsStoredQuantity(items[i].quantity)
    /\ StoredByLast =>
            QuantityAsClaimed(GivenQuantity, last.ret.item.quantity, QuantityMax)

\* C15 for finite inputs, with an input that is not finite (Infinity, as
\* well as a non-numeric one) stored as 1.
C15_FiniteQuantityClamped ==
    /\ \A i \in 1..Len(items) : IsStoredQuantity(items[i].quantity)
    /\ StoredByLast =>
            QuantityAsClaimed(GivenQuantity, last.ret.item.quantity, QuantityMin)

\* an update that gave 5000 and stored 999 on a record in the collection
C15_Witness ==
    /\ last.op = "update"
    /\ last.settled
    /\ last.ret.kind = "item"
    /\ last.arg.f.quantity = Num(5000)
    /\ Len(items) = 1
    /\ items[1].quantity = Num(QuantityMax)

----------------------------------------------------------------------------
(* The data file under overlapping calls (SpecOverlap; no write fails).    *)

\* C16: once every overlapping call has completed, the data file holds
\* exactly the in-memory collection, whatever the order in which the writes
\* completed.
C16_FileCatchesUp ==
    (/\ up
     /\ Idle
     /\ last.op \in {"create", "update", "remove"}
     /\ last.settled
     /\ last.persisted)
        => disk = File(JsonStringify(items))

----------------------------------------------------------------------------
(* A failed write and the next successful one (Spec).                      *)

\* the step is a call of a store method that went on to persist()
CallStep ==
    /\ ~last'.settled
    /\ \/ last'.op = "create" /\ StoreCreate(last'.arg)
       \/ last'.op = "update" /\ StoreUpdate(last'.id, last'.arg)
       \/ last'.op = "remove" /\ StoreRemove(last'.id)

\* the step is the settling of the call made before it
StoreStep ==
    /\ ~last.settled
    /\ last'.settled
    /\ last'.op \in {"create", "update", "remove"}
    /\ \E w \in inflight, io \in StoreIo : WriteDone(w, io)

\* C17: a create, update or remove whose write fails throws and still leaves
\* its change in the collection; the next create, update or remove whose
\* write succeeds leaves the data file equal to the collection, the earlier
\* change included.
C17_NextWriteCatchesUp ==
    [][/\ CallStep =>
            /\ last'.op = "create" => Len(items') = Len(items) + 1
            /\ last'.op = "remove" => Len(items') = Len(items) - 1
            /\ last'.op = "update" => Len(items') = Len(items)
       /\ StoreStep =>
            /\ last'.io # "ok" => (last'.threw /\ items' = items)
            /\ (last'.afterFailure /\ last'.io = "ok") =>
                    /\ ~last'.threw
                    /\ items' = items
                    /\ disk' = File(JsonStringify(items'))
                    /\ ensureLoaded(disk', seed, clock, uuids, "ok").items = items']_vars

\* an update was written right after a create whose write had failed, and
\* the file holds both the created record and the update
C17_Witness ==
    /\ last.op = "update"
    /\ last.settled
    /\ last.afterFailure
    /\ last.persisted /\ last.io = "ok" /\ ~last.threw
    /\ Len(items) >= 1
    /\ disk = File(JsonStringify(items))

----------------------------------------------------------------------------
(* The rate limit over every request (SpecHttp).                           *)

\* a request arrived in this step
HttpStep ==
    /\ last'.req # NoRequest
    /\ \E express \in ExpressVersions : HttpRequest(last'.req, express)

\* the address has used up its requests in the window that is running
Exhausted(ip) ==
    /\ buckets[ip].present
    /\ clock - buckets[ip].windowStartMs < WindowMs
    /\ buckets[ip].count >= MaxRequests

\* C18: every request, whatever its method, path, origin and body, counts
\* against its address's limit, and once the address has used up its
\* requests in the running window every further request is answered 429 and
\* reaches neither the origin check nor the store.
C18_EveryRequestLimited ==
    [][HttpStep =>
        IF Exhausted(last'.req.ip)
        THEN /\ last'.status = 429
             /\ items' = items
             /\ disk' = disk
        ELSE /\ buckets'[last'.req.ip].present
             /\ buckets'[last'.req.ip].count =
                    IF buckets[last'.req.ip].present
                            /\ clock - buckets[last'.req.ip].windowStartMs < WindowMs
                    THEN buckets[last'.req.ip].count + 1
                    ELSE 1]_vars

====
